---- MODULE Spec2Model ----
\* A model of package dns (src/dns/dns.go): the handler chain built by
\* ApplyConfig, the mapping rules, the general resolver and the race run by
\* ResolveDomain.  Go strings that the code indexes or slices (domains and
\* mapping patterns) are sequences of one-character strings; a configured
\* server or IP string "[scheme://]host[:port]" is a record of its three parts.
EXTENDS Integers, Sequences, FiniteSets, TLC

\* ---------------------------------------------------------------- bounds
MaxAnswer  == 1   \* resource records in one DNS answer section
MaxRules   == 2   \* mapping rules in a configuration
MaxServers == 2   \* servers passed to a direct ResolveDomain call
MaxQueries == 2   \* successive queries put to one chain
MaxLen     == 2   \* characters in a pattern or a domain of the matcher runs
MaxPort    == 2   \* characters in the port of a string put to ParseDnsServer
NCallers   == 2   \* goroutines querying the cache layer at once
MaxTime    == 2   \* ticks of the clock the cache layer reads
MaxAsks    == 3   \* queries put to the cache layer in one run

\* ------------------------------------------------------------- constants
TypSystem  == "system"
TypStatic  == "static"
TypDynamic == "dynamic"

Nil == "nil"          \* a nil pointer, nil slice header or nil func value
NoErr == "ok"         \* a nil error

RECURSIVE SeqsUpTo(_, _)
SeqsUpTo(S, n) ==
  IF n = 0 THEN {<<>>}
  ELSE LET P == SeqsUpTo(S, n - 1)
       IN  P \cup {Append(s, x) : s \in {p \in P : Len(p) = n - 1}, x \in S}

\* ------------------------------------------------------- strings (Go)
\* strings.HasSuffix(s, suffix)
HasSuffix(s, suffix) ==
  /\ Len(suffix) <= Len(s)
  /\ SubSeq(s, Len(s) - Len(suffix) + 1, Len(s)) = suffix

\* A configured address string, split at "://" and at the last ":".
AddrStr(scheme, host, port) == [scheme |-> scheme, host |-> host, port |-> port]

IPLiterals == {"1.1.1.1", "2.2.2.2"}

\* net.ParseIP over the whole string: nil unless the string is a bare IP literal.
ParseIP(v) ==
  IF v.scheme = "" /\ v.port = <<>> /\ v.host \in IPLiterals THEN v.host ELSE Nil

Digits == <<"0", "1", "2", "3", "4", "5", "6", "7", "8", "9">>
IsDigit(c) == \E i \in 1..10 : Digits[i] = c
DigitVal(c) == (CHOOSE i \in 1..10 : Digits[i] = c) - 1

RECURSIVE AtoiAcc(_, _)
AtoiAcc(s, acc) ==
  IF s = <<>> THEN acc ELSE AtoiAcc(Tail(s), acc * 10 + DigitVal(Head(s)))

\* strconv.Atoi on a port: the number, or -1 for a syntax error.
Atoi(s) ==
  IF s # <<>> /\ \A i \in 1..Len(s) : IsDigit(s[i]) THEN AtoiAcc(s, 0) ELSE -1

DefaultPort == 53

\* DnsServer{}: the zero value ResolveDomain returns on cancellation.
ZeroServer == [Network |-> "", IP |-> Nil, Port |-> 0]

\* The nil *DnsServer ParseDnsServer returns beside an error.
NilServer == [Network |-> "nil", IP |-> Nil, Port |-> 0]

\* A ParseDnsServer that takes any scheme for the network.
ParseDnsServerAnyScheme(value) ==
  LET scheme == IF value.scheme = "" THEN "udp" ELSE value.scheme
      ip     == IF value.host \in IPLiterals THEN value.host ELSE Nil
      port   == Atoi(value.port)
  IN  IF value.port # <<>> /\ port < 0 THEN [s |-> NilServer, err |-> "url"]
      ELSE IF ip = Nil THEN [s |-> NilServer, err |-> "ip"]
      ELSE IF value.port = <<>>
           THEN [s |-> [Network |-> scheme, IP |-> ip, Port |-> DefaultPort], err |-> NoErr]
           ELSE [s |-> [Network |-> scheme, IP |-> ip, Port |-> port], err |-> NoErr]

\* ParseDnsServer: [s |-> descriptor or NilServer, err |-> NoErr or the failure].
ParseDnsServer(value) ==
  LET scheme == IF value.scheme = "" THEN "udp" ELSE value.scheme
      ip     == IF value.host \in IPLiterals THEN value.host ELSE Nil
      port   == Atoi(value.port)
  IN  IF value.port # <<>> /\ port < 0 THEN [s |-> NilServer, err |-> "url"]
      ELSE IF scheme # "udp" THEN [s |-> NilServer, err |-> "scheme"]
      ELSE IF ip = Nil THEN [s |-> NilServer, err |-> "ip"]
      ELSE IF value.port = <<>>
           THEN [s |-> [Network |-> scheme, IP |-> ip, Port |-> DefaultPort], err |-> NoErr]
           ELSE [s |-> [Network |-> scheme, IP |-> ip, Port |-> port], err |-> NoErr]

\* Parse a list of server strings in order, stopping at the first failure
\* (the loops of newGeneralHandle and newMappingHandle).
RECURSIVE ParseServers(_)
ParseServers(servers) ==
  IF servers = <<>> THEN [addrs |-> <<>>, err |-> NoErr]
  ELSE LET h == ParseDnsServer(Head(servers))
       IN  IF h.err # NoErr THEN [addrs |-> <<>>, err |-> h.err]
           ELSE LET r == ParseServers(Tail(servers))
                IN  IF r.err # NoErr THEN r
                    ELSE [addrs |-> <<h.s>> \o r.addrs, err |-> NoErr]

\* The loop over ips in newMappingHandle: net.ParseIP each, stop at the first nil.
RECURSIVE ParseIPs(_)
ParseIPs(ips) ==
  IF ips = <<>> THEN [netIP |-> <<>>, err |-> NoErr]
  ELSE IF ParseIP(Head(ips)) = Nil THEN [netIP |-> <<>>, err |-> "ip invalid"]
  ELSE LET r == ParseIPs(Tail(ips))
       IN  IF r.err # NoErr THEN r
           ELSE [netIP |-> <<ParseIP(Head(ips))>> \o r.netIP, err |-> NoErr]

\* ------------------------------------------------------------ handlers
\* A Handle is a closure; the value below is what it closes over.  The next
\* handler it holds is the one after it in the chain.
Closure(kind, mappingDomain, serverAddrs, netIP) ==
  [kind |-> kind, mappingDomain |-> mappingDomain,
   serverAddrs |-> serverAddrs, netIP |-> netIP]

Fallback      == Closure("fallback", <<>>, <<>>, <<>>)
CacheClosure  == Closure("cache", <<>>, <<>>, <<>>)
NilHandle     == Closure("nil", <<>>, <<>>, <<>>)

\* newGeneralHandle: [handle, err]; a nil handle on a parse failure.
newGeneralHandle(servers) ==
  LET p == ParseServers(servers)
  IN  IF p.err # NoErr THEN [handle |-> NilHandle, err |-> p.err]
      ELSE [handle |-> Closure("general", <<>>, p.addrs, <<>>), err |-> NoErr]

\* newMappingHandle(mappingDomain, servers, ips, next): [handle, err].
newMappingHandle(mappingDomain, servers, ips) ==
  IF Len(servers) = 0 /\ Len(ips) = 0
  THEN [handle |-> NilHandle, err |-> "server and ip is empty"]
  ELSE IF Len(servers) > 0
  THEN LET p == ParseServers(servers)
       IN  IF p.err # NoErr THEN [handle |-> NilHandle, err |-> p.err]
           ELSE [handle |-> Closure("mappingServer", mappingDomain, p.addrs, <<>>),
                 err |-> NoErr]
  ELSE LET p == ParseIPs(ips)
       IN  IF p.err # NoErr THEN [handle |-> NilHandle, err |-> p.err]
           ELSE [handle |-> Closure("mappingStatic", mappingDomain, <<>>, p.netIP),
                 err |-> NoErr]

\* The nil Handle ApplyConfig returns beside an error: a chain of no handler.
NilChain == <<>>

\* The call ApplyConfig makes for one rule v of config.DNS.Mapping.
MappingCall(v) == newMappingHandle(v.Domain, v.IP, v.Server)

\* A loop that wraps the rules from the first to the last, leaving the last
\* configured rule at the head of the chain.
RECURSIVE WrapMappingsForward(_, _, _)
WrapMappingsForward(mapping, i, chain) ==
  IF i = 0 THEN [handle |-> chain, err |-> NoErr]
  ELSE LET r == MappingCall(mapping[Len(mapping) - i + 1])
       IN  IF r.err # NoErr THEN [handle |-> NilChain, err |-> r.err]
           ELSE WrapMappingsForward(mapping, i - 1, <<r.handle>> \o chain)

\* The loop of ApplyConfig, from the last rule to the first: chain is the
\* handler built so far (its head first); the first failure ends the build.
RECURSIVE WrapMappings(_, _, _)
WrapMappings(mapping, i, chain) ==
  IF i = 0 THEN [handle |-> chain, err |-> NoErr]
  ELSE LET r == MappingCall(mapping[i])
       IN  IF r.err # NoErr THEN [handle |-> NilChain, err |-> r.err]
           ELSE WrapMappings(mapping, i - 1, <<r.handle>> \o chain)

\* ApplyConfig(config, fallback): [handle, err].  The error of newGeneralHandle
\* is dropped, so a failed general resolver is a nil handle inside the chain.
ApplyConfig(config, geoErr) ==
  IF geoErr THEN [handle |-> NilChain, err |-> "geoip"]
  ELSE LET g    == newGeneralHandle(config.Servers)
           base == IF g.err # NoErr THEN <<CacheClosure, NilHandle>>
                   ELSE <<CacheClosure, g.handle, Fallback>>
       IN  WrapMappings(config.Mapping, Len(config.Mapping), base)

\* ------------------------------------------------------------- records
\* DNS, the resolution record (ExpireAt is never set by this file).
DNS(typ, mappingDomain, domain, ip, server, currentServer, currentIP, country) ==
  [Typ |-> typ, MappingDomain |-> mappingDomain, Domain |-> domain, IP |-> ip,
   Server |-> server, CurrentServer |-> currentServer, CurrentIP |-> currentIP,
   CurrentCountry |-> country]

\* &DNS{}: every field at its zero value.
ZeroDNS == DNS("", <<>>, <<>>, <<>>, <<>>, ZeroServer, Nil, "")

\* (*DNS).IsNil
IsNil(d) == Len(d.Domain) = 0

\* SelectIP, the default policy.
SelectIP(ips) == IF Len(ips) > 0 THEN ips[1] ELSE Nil

\* GeoLookUp: the country of an address, "" when there is none.
GeoLookUp(ip) == IF ip = Nil THEN "" ELSE "ZZ"

\* The test both mapping closures make on the queried domain:
\* "panic" (index out of range on an empty pattern), "match" or "next".
MatchMapping(mappingDomain, domain) ==
  IF Len(mappingDomain) = 0 THEN "panic"
  ELSE IF mappingDomain[1] = "*" /\ HasSuffix(domain, Tail(mappingDomain)) THEN "match"
  ELSE IF mappingDomain = domain THEN "match"
  ELSE "next"

\* ------------------------------------------------------------ exchange
Addrs == {"10.0.0.1", "10.0.0.2"}
RRs == [typ : {"A"}, A : Addrs] \cup {[typ |-> "CNAME", A |-> Nil]}
Answers == SeqsUpTo(RRs, MaxAnswer)

\* What dns.Exchange hands back: a message and no error, an error and no
\* message (the transport failed), or an error beside a message that did not
\* unpack cleanly.
ExchangeResults ==
  [nilMsg : {FALSE}, r : Answers, err : BOOLEAN]
    \cup {[nilMsg |-> TRUE, r |-> <<>>, err |-> TRUE]}

\* The loop over r.Answer that keeps the A records.
RECURSIVE ARecords(_)
ARecords(answer) ==
  IF answer = <<>> THEN <<>>
  ELSE IF Head(answer).typ = "A" THEN <<Head(answer).A>> \o ARecords(Tail(answer))
  ELSE ARecords(Tail(answer))

\* --------------------------------------------------------------- inputs
\* Configured address strings: "1.1.1.1", "2.2.2.2", "udp://2.2.2.2:5353",
\* "ns.example".
StrA == AddrStr("", "1.1.1.1", <<>>)
StrB == AddrStr("", "2.2.2.2", <<>>)
StrU == AddrStr("udp", "2.2.2.2", <<"5", "3", "5", "3">>)
StrH == AddrStr("", "ns.example", <<>>)

\* model.Config.DNS values put to ApplyConfig.
ChainPatterns == {<<>>, <<"a">>, <<"*", "a">>}
ChainDomains  == {<<"a">>, <<"b", "a">>, <<"b">>}
ChainRules ==
  [Domain : ChainPatterns, IP : {<<>>, <<StrA>>}, Server : {<<>>, <<StrB, StrA>>}]
ChainConfigs ==
  [Servers : {<<>>, <<StrU>>, <<StrH>>}, Mapping : SeqsUpTo(ChainRules, MaxRules)]

\* "tcp://1.1.1.1"
StrT == AddrStr("tcp", "1.1.1.1", <<>>)

\* Configurations put to ApplyConfig alone: address strings that parse and
\* that do not, in the global list and in the two lists of a rule.
BuildRules ==
  [Domain : {<<"a">>}, IP : {<<>>, <<StrA>>, <<StrH>>},
   Server : {<<>>, <<StrU>>, <<StrH>>}]
BuildConfigs ==
  [Servers : {<<>>, <<StrA>>, <<StrH>>, <<StrA, StrT>>},
   Mapping : SeqsUpTo(BuildRules, MaxRules)]

\* One-rule configurations over every pattern of up to MaxLen characters.
Chars == {"*", "a", "A"}
Strings == SeqsUpTo(Chars, MaxLen)
MatchConfigs ==
  [Servers : {<<StrA>>},
   Mapping : {<<r>> : r \in [Domain : Strings, IP : {<<>>, <<StrA>>}, Server : {<<>>, <<StrB>>}]}]

\* Strings put to ParseDnsServer alone: with and without a scheme, hosts that
\* are IP literals and one that is not, ports of digits and of other characters.
PortChars == {"5", "3", "x"}
ParseValues ==
  [scheme : {"", "udp", "tcp"}, host : IPLiterals \cup {"ns.example"},
   port : SeqsUpTo(PortChars, MaxPort)]

\* The result slot of a ParseDnsServer call that has not returned.
NotParsed == [s |-> NilServer, err |-> "none"]

\* The domains put to the cache layer by concurrent callers, what their
\* downstream handler may return, and the lifetime of a stored record.
CacheDomains == {<<"a">>, <<"b">>}
DownReplies(d) ==
  {DNS(TypDynamic, <<>>, d, <<>>, <<>>, ZeroServer, Nil, ""),
   DNS(TypDynamic, <<>>, d, <<"10.0.0.1">>, <<>>, ZeroServer, "10.0.0.1", "ZZ"),
   DNS(TypDynamic, <<>>, d, <<"10.0.0.2">>, <<>>, ZeroServer, "10.0.0.2", "ZZ")}
TTL == 1
IdleCaller == [st |-> "idle", d |-> <<>>, via |-> "", got |-> ZeroDNS]

\* Descriptors passed to a direct ResolveDomain call.
Descriptors == {ParseDnsServer(StrA).s, ParseDnsServer(StrU).s}
ServerLists == SeqsUpTo(Descriptors, MaxServers)

\* What the caller's fallback handler may return.
FallbackReplies(d) ==
  {ZeroDNS, DNS(TypSystem, <<>>, d, <<"192.0.2.1">>, <<>>, ZeroServer, "192.0.2.1", "ZZ")}

\* ---------------------------------------------------------------- state
VARIABLES
  config,     \* the configuration given to ApplyConfig
  applied,    \* ApplyConfig has returned
  handle,     \* the chain ApplyConfig returned, head first (NilChain: nil)
  buildErr,   \* the error ApplyConfig returned
  cache,      \* the cache layer's entries, at most one per domain
  nQueries,   \* queries put to the chain so far
  pc,         \* where the current call is: idle, handle, race, cacheRet, direct, done
  domain,     \* the queried domain
  pos,        \* the handler of the chain that is running
  reply,      \* the record of the running handler, at "done" the one returned
  invoked,    \* the handlers invoked for the current query, in call order
  fbReply,    \* what the fallback returned to the general resolver
  ctxDone,    \* ctx.Done() is closed
  rdServers,  \* the servers of the running ResolveDomain call
  attempts,   \* its goroutines: exchange (in flight), send (blocked on c), done
  rdState,    \* none, select (waiting in the select), returned
  rdIps,      \* ResolveDomain's results
  rdServer,
  rdErr,
  cancelledFirst, \* the scope was cancelled while no attempt had finished its exchange
  panicked,   \* "" or the panic that ended the process
  parseIn,    \* the string given to a ParseDnsServer call made on its own
  parsed,     \* what that call returned (NotParsed before it returns)
  sfNow,      \* the clock of the cache layer
  sfEntries,  \* its stored records: [d, rec, expiresAt], at most one per domain
  sfFlights,  \* the domains with a downstream call in flight
  sfCallers,  \* its concurrent callers: idle, lead (in the downstream call), wait, done
  sfDown,     \* downstream invocations so far, per domain
  sfAsks      \* queries put to the cache layer so far

chainVars == <<config, applied, handle, buildErr, cache, nQueries, pc, domain, pos,
               reply, invoked, fbReply, ctxDone, rdServers, attempts, rdState,
               rdIps, rdServer, rdErr, cancelledFirst, panicked>>
parseVars  == <<parseIn, parsed>>
flightVars == <<sfNow, sfEntries, sfFlights, sfCallers, sfDown, sfAsks>>

vars == <<chainVars, parseVars, flightVars>>

buildVars == <<config, applied, handle, buildErr>>
raceVars  == <<rdServers, attempts, rdState, rdIps, rdServer, rdErr>>

Running == panicked = ""

InitChain(cfg) ==
  /\ config = cfg
  /\ applied = FALSE
  /\ handle = NilChain
  /\ buildErr = NoErr
  /\ cache = {}
  /\ nQueries = 0
  /\ pc = "idle"
  /\ domain = <<>>
  /\ pos = 0
  /\ reply = ZeroDNS
  /\ invoked = <<>>
  /\ fbReply = ZeroDNS
  /\ ctxDone = FALSE
  /\ rdServers = <<>>
  /\ attempts = <<>>
  /\ rdState = "none"
  /\ rdIps = <<>>
  /\ rdServer = ZeroServer
  /\ rdErr = NoErr
  /\ cancelledFirst = FALSE
  /\ panicked = ""

InitParsed(value) == parseIn = value /\ parsed = NotParsed

InitFlights ==
  /\ sfNow = 0
  /\ sfEntries = {}
  /\ sfFlights = {}
  /\ sfCallers = [c \in 1..NCallers |-> IdleCaller]
  /\ sfDown = [d \in CacheDomains |-> 0]
  /\ sfAsks = 0

InitWith(cfg) == InitChain(cfg) /\ InitParsed(StrA) /\ InitFlights

Init == \E cfg \in ChainConfigs : InitWith(cfg)

\* ------------------------------------------------------------- the build
ApplyConfigStep ==
  /\ Running /\ ~applied
  /\ \E geoErr \in BOOLEAN :
       LET r == ApplyConfig(config, geoErr)
       IN  /\ handle' = r.handle
           /\ buildErr' = r.err
  /\ applied' = TRUE
  /\ UNCHANGED <<parseVars, flightVars, config, cache, nQueries, pc, domain, pos,
                 reply, invoked, fbReply, ctxDone, raceVars, cancelledFirst, panicked>>

\* ------------------------------------------------------- ResolveDomain
\* The loop that starts one goroutine per server; the caller then waits in
\* the select.
StartRace(servers) ==
  /\ rdServers' = servers
  /\ attempts' = [i \in 1..Len(servers) |-> [st |-> "exchange", ips |-> <<>>]]
  /\ rdState' = "select"
  /\ rdIps' = <<>>
  /\ rdServer' = ZeroServer
  /\ rdErr' = NoErr

\* The _reply a goroutine builds from the message of its exchange.
AttemptReply(r) == ARecords(r)

\* A direct call ResolveDomain(ctx, domain, servers...).
CallResolveDomain(servers) ==
  /\ Running /\ pc = "idle" /\ ~applied
  /\ pc' = "direct"
  /\ ctxDone' = FALSE
  /\ cancelledFirst' = FALSE
  /\ StartRace(servers)
  /\ UNCHANGED <<parseVars, flightVars, buildVars, cache, nQueries, domain, pos, reply, invoked, fbReply, panicked>>

\* One goroutine: dns.Exchange returns, the A records are collected and the
\* goroutine reaches its send on c.  r is nil after a transport failure, and
\* r.Answer then panics.
Exchange(i) ==
  /\ Running
  /\ i \in DOMAIN attempts /\ attempts[i].st = "exchange"
  /\ \E x \in ExchangeResults :
       IF x.nilMsg
       THEN /\ panicked' = "nil pointer dereference"
            /\ UNCHANGED attempts
       ELSE /\ attempts' = [attempts EXCEPT ![i] = [st |-> "send", ips |-> AttemptReply(x.r)]]
            /\ UNCHANGED panicked
  /\ UNCHANGED <<parseVars, flightVars, buildVars, cache, nQueries, pc, domain, pos, reply, invoked, fbReply,
                 ctxDone, rdServers, rdState, rdIps, rdServer, rdErr, cancelledFirst>>

\* A select that folded the replies of every goroutine waiting on c into its result.
ReceivedReplyMerged(servers, att, i) ==
  LET RECURSIVE All(_)
      All(k) == IF k > Len(att) THEN <<>>
                ELSE (IF att[k].st = "send" THEN att[k].ips ELSE <<>>) \o All(k + 1)
  IN  [ips |-> All(1), server |-> servers[i], err |-> NoErr]

\* What the select returns when it receives the reply of goroutine i.
ReceivedReply(servers, att, i) ==
  [ips |-> att[i].ips, server |-> servers[i], err |-> NoErr]

\* A cancellation that reports no error.
CancelledReplyNoErr ==
  [ips |-> <<>>, server |-> ZeroServer, err |-> NoErr]

\* What the select returns on ctx.Done().
CancelledReply ==
  [ips |-> <<>>, server |-> ZeroServer, err |-> "context was canceled"]

\* case reply := <-c: the send of goroutine i meets the receive.
SelectRecv(i) ==
  /\ Running /\ rdState = "select"
  /\ i \in DOMAIN attempts /\ attempts[i].st = "send"
  /\ LET got == ReceivedReply(rdServers, attempts, i)
     IN  /\ rdIps' = got.ips
         /\ rdServer' = got.server
         /\ rdErr' = got.err
  /\ attempts' = [attempts EXCEPT ![i].st = "done"]
  /\ rdState' = "returned"
  /\ UNCHANGED <<parseVars, flightVars, buildVars, cache, nQueries, pc, domain, pos, reply, invoked, fbReply,
                 ctxDone, rdServers, cancelledFirst, panicked>>

\* case <-ctx.Done()
SelectDone ==
  /\ Running /\ rdState = "select" /\ ctxDone
  /\ rdIps' = CancelledReply.ips
  /\ rdServer' = CancelledReply.server
  /\ rdErr' = CancelledReply.err
  /\ rdState' = "returned"
  /\ UNCHANGED <<parseVars, flightVars, buildVars, cache, nQueries, pc, domain, pos, reply, invoked, fbReply,
                 ctxDone, rdServers, attempts, cancelledFirst, panicked>>

\* The caller cancels the request scope.
Cancel ==
  /\ Running /\ ~ctxDone
  /\ pc \in {"handle", "race", "direct"} /\ rdState # "returned"
  /\ ctxDone' = TRUE
  /\ cancelledFirst' = \A i \in DOMAIN attempts : attempts[i].st = "exchange"
  /\ UNCHANGED <<parseVars, flightVars, buildVars, cache, nQueries, pc, domain, pos, reply, invoked, fbReply,
                 raceVars, panicked>>

NextRace ==
  \/ \E servers \in ServerLists : CallResolveDomain(servers)
  \/ \E i \in 1..MaxServers : Exchange(i)
  \/ \E i \in 1..MaxServers : SelectRecv(i)
  \/ SelectDone
  \/ Cancel

InitRace == InitWith([Servers |-> <<>>, Mapping |-> <<>>])

SpecRace == InitRace /\ [][NextRace]_vars

\* ------------------------------------------------------------ the chain
Current == handle[pos]

\* A caller puts a query for domain d to the handle ApplyConfig returned.
\* Goroutines of an earlier query that are still in their exchange finish first.
CallHandle(d) ==
  /\ Running /\ applied /\ buildErr = NoErr
  /\ pc \in {"idle", "done"} /\ nQueries < MaxQueries
  /\ \A i \in DOMAIN attempts : attempts[i].st # "exchange"
  /\ nQueries' = nQueries + 1
  /\ pc' = "handle"
  /\ domain' = d
  /\ pos' = 1
  /\ invoked' = <<1>>
  /\ reply' = ZeroDNS
  /\ fbReply' = ZeroDNS
  /\ ctxDone' = FALSE
  /\ cancelledFirst' = FALSE
  /\ rdServers' = <<>> /\ attempts' = <<>> /\ rdState' = "none"
  /\ rdIps' = <<>> /\ rdServer' = ZeroServer /\ rdErr' = NoErr
  /\ UNCHANGED <<parseVars, flightVars, buildVars, cache, panicked>>

\* next(ctx, domain): the running handler invokes the one after it.
InvokeNext ==
  /\ pos' = pos + 1
  /\ invoked' = Append(invoked, pos + 1)
  /\ pc' = "handle"

\* A server-backed mapping closure that leaves the matched pattern out of its record.
MappingServerRecordNoPattern(h, d) ==
  DNS(TypStatic, <<>>, d, <<>>, h.serverAddrs, ZeroServer, Nil, "")

\* The record a server-backed mapping closure builds before its race.
MappingServerRecord(h, d) ==
  DNS(TypStatic, h.mappingDomain, d, <<>>, h.serverAddrs, ZeroServer, Nil, "")

\* The servers a server-backed mapping closure races.
MappingServerRace(h) == h.serverAddrs

\* The record a static-IP mapping closure returns.
MappingStaticRecord(h, d) ==
  DNS(TypStatic, h.mappingDomain, d, h.netIP, <<>>, ZeroServer, h.netIP[1],
      GeoLookUp(h.netIP[1]))

\* The closure of a server-backed mapping rule, up to its call of ResolveDomain.
MappingServerHandle ==
  /\ Running /\ pc = "handle" /\ Current.kind = "mappingServer"
  /\ LET m == MatchMapping(Current.mappingDomain, domain)
     IN  CASE m = "panic" ->
                /\ panicked' = "index out of range"
                /\ UNCHANGED <<pc, pos, invoked, reply, raceVars>>
           [] m = "next" ->
                /\ InvokeNext
                /\ UNCHANGED <<reply, raceVars, panicked>>
           [] m = "match" ->
                /\ reply' = MappingServerRecord(Current, domain)
                /\ StartRace(MappingServerRace(Current))
                /\ pc' = "race"
                /\ UNCHANGED <<pos, invoked, panicked>>
  /\ UNCHANGED <<parseVars, flightVars, buildVars, cache, nQueries, domain, fbReply, ctxDone, cancelledFirst>>

\* The same closure once ResolveDomain has returned.
MappingServerReturn ==
  /\ Running /\ pc = "race" /\ rdState = "returned" /\ Current.kind = "mappingServer"
  /\ reply' = [reply EXCEPT !.IP = rdIps, !.CurrentServer = rdServer]
  /\ pc' = "done"
  /\ UNCHANGED <<parseVars, flightVars, buildVars, cache, nQueries, domain, pos, invoked, fbReply, ctxDone,
                 raceVars, cancelledFirst, panicked>>

\* The closure of a static-IP mapping rule.
MappingStaticHandle ==
  /\ Running /\ pc = "handle" /\ Current.kind = "mappingStatic"
  /\ LET m == MatchMapping(Current.mappingDomain, domain)
     IN  CASE m = "panic" ->
                /\ panicked' = "index out of range"
                /\ UNCHANGED <<pc, pos, invoked, reply>>
           [] m = "next" ->
                /\ InvokeNext
                /\ UNCHANGED <<reply, panicked>>
           [] m = "match" ->
                /\ reply' = MappingStaticRecord(Current, domain)
                /\ pc' = "done"
                /\ UNCHANGED <<pos, invoked, panicked>>
  /\ UNCHANGED <<parseVars, flightVars, buildVars, cache, nQueries, domain, fbReply, ctxDone, raceVars,
                 cancelledFirst>>

\* The cache layer: a live entry for the domain is returned as it is.
CacheHit ==
  /\ Running /\ pc = "handle" /\ Current.kind = "cache"
  /\ \E e \in cache :
       /\ e.Domain = domain
       /\ reply' = e
  /\ pc' = "done"
  /\ UNCHANGED <<parseVars, flightVars, buildVars, cache, nQueries, domain, pos, invoked, fbReply, ctxDone,
                 raceVars, cancelledFirst, panicked>>

\* The cache layer: no entry, delegate to the next handler.
CacheMiss ==
  /\ Running /\ pc = "handle" /\ Current.kind = "cache"
  /\ \A e \in cache : e.Domain # domain
  /\ InvokeNext
  /\ UNCHANGED <<parseVars, flightVars, buildVars, cache, nQueries, domain, reply, fbReply, ctxDone,
                 raceVars, cancelledFirst, panicked>>

\* The cache layer once the next handler has returned: a record with a
\* domain and at least one address is stored, and the record is returned.
CacheReturn ==
  /\ Running /\ pc = "cacheRet"
  /\ cache' = IF ~IsNil(reply) /\ Len(reply.IP) > 0
              THEN {e \in cache : e.Domain # reply.Domain} \cup {reply}
              ELSE cache
  /\ pc' = "done"
  /\ UNCHANGED <<parseVars, flightVars, buildVars, nQueries, domain, pos, reply, invoked, fbReply, ctxDone,
                 raceVars, cancelledFirst, panicked>>

\* The general resolver's closure, up to its call of ResolveDomain.
GeneralHandle ==
  /\ Running /\ pc = "handle" /\ Current.kind = "general"
  /\ reply' = DNS(TypDynamic, <<>>, domain, <<>>, <<>>, ZeroServer, Nil, "")
  /\ StartRace(Current.serverAddrs)
  /\ pc' = "race"
  /\ UNCHANGED <<parseVars, flightVars, buildVars, cache, nQueries, domain, pos, invoked, fbReply, ctxDone,
                 cancelledFirst, panicked>>

\* A general resolver that also takes an answer without addresses for a failure.
GeneralFailedOnEmpty(err, ips) == err # NoErr \/ Len(ips) = 0

\* The test the general resolver makes before it invokes the next handler.
GeneralFailed(err, ips) == err # NoErr

\* The same closure once ResolveDomain has returned: on an error the next
\* handler is invoked, and the closure's own record is what it returns.
GeneralReturn ==
  /\ Running /\ pc = "race" /\ rdState = "returned" /\ Current.kind = "general"
  /\ reply' = [reply EXCEPT !.IP = rdIps, !.CurrentServer = rdServer,
                            !.CurrentIP = SelectIP(rdIps),
                            !.CurrentCountry = GeoLookUp(SelectIP(rdIps))]
  /\ IF GeneralFailed(rdErr, rdIps)
     THEN InvokeNext
     ELSE pc' = "cacheRet" /\ UNCHANGED <<pos, invoked>>
  /\ UNCHANGED <<parseVars, flightVars, buildVars, cache, nQueries, domain, fbReply, ctxDone, raceVars,
                 cancelledFirst, panicked>>

\* A general resolver that hands back what the fallback returned.
GeneralResultFromNext(own, fromNext) == fromNext

\* What the general resolver returns after next(ctx, domain): its own record.
GeneralResult(own, fromNext) == own

\* The caller's fallback handler, invoked by the general resolver, which
\* drops what it returns and returns its own record.
FallbackHandle ==
  /\ Running /\ pc = "handle" /\ Current.kind = "fallback"
  /\ \E fb \in FallbackReplies(domain) :
       /\ fbReply' = fb
       /\ reply' = GeneralResult(reply, fb)
  /\ pc' = "cacheRet"
  /\ UNCHANGED <<parseVars, flightVars, buildVars, cache, nQueries, domain, pos, invoked, ctxDone,
                 raceVars, cancelledFirst, panicked>>

\* Calling the nil Handle a failed newGeneralHandle left in the chain.
NilHandleCall ==
  /\ Running /\ pc = "handle" /\ Current.kind = "nil"
  /\ panicked' = "nil func call"
  /\ UNCHANGED <<parseVars, flightVars, buildVars, cache, nQueries, pc, domain, pos, reply, invoked, fbReply,
                 ctxDone, raceVars, cancelledFirst>>

Next ==
  \/ ApplyConfigStep
  \/ \E d \in ChainDomains : CallHandle(d)
  \/ MappingServerHandle
  \/ MappingServerReturn
  \/ MappingStaticHandle
  \/ CacheHit
  \/ CacheMiss
  \/ CacheReturn
  \/ GeneralHandle
  \/ GeneralReturn
  \/ FallbackHandle
  \/ NilHandleCall
  \/ \E i \in DOMAIN attempts : Exchange(i)
  \/ \E i \in DOMAIN attempts : SelectRecv(i)
  \/ SelectDone
  \/ Cancel

Spec == Init /\ [][Next]_vars

\* ------------------------------------------------------- the matcher runs
InitMatch == \E cfg \in MatchConfigs : InitWith(cfg)

NextMatch ==
  \/ ApplyConfigStep
  \/ \E d \in Strings : CallHandle(d)
  \/ MappingServerHandle
  \/ MappingStaticHandle

SpecMatch == InitMatch /\ [][NextMatch]_vars

\* ------------------------------------------------ ParseDnsServer alone
\* One call ParseDnsServer(parseIn).
ParseStep ==
  /\ parsed = NotParsed
  /\ parsed' = ParseDnsServer(parseIn)
  /\ UNCHANGED <<chainVars, parseIn, flightVars>>

InitParse ==
  \E value \in ParseValues :
     InitChain([Servers |-> <<>>, Mapping |-> <<>>]) /\ InitParsed(value) /\ InitFlights
NextParse == ParseStep
SpecParse == InitParse /\ [][NextParse]_vars

\* --------------------------------------- the cache layer, concurrent callers
\* A stored record is live until its expiresAt.
Live(e, t) == t < e.expiresAt

\* The live entry for domain d, as a set of none or one.
LiveEntries(d) == {e \in sfEntries : e.d = d /\ Live(e, sfNow)}

\* A caller that finds a flight for its domain never starts its own call.
InFlightNever(d, flights) == FALSE

\* The single-flight test: a downstream call for d is in flight.
InFlight(d, flights) == d \in flights

\* A record the cache layer stores: it has a domain and at least one address.
Storable(rec) == ~IsNil(rec) /\ Len(rec.IP) > 0

\* Caller c queries domain d: an expired entry for d is evicted; a live entry
\* is returned at once; with a flight for d the caller waits for its result;
\* otherwise the caller starts the downstream call.
CacheAsk(c, d) ==
  /\ sfCallers[c].st = "idle" /\ sfAsks < MaxAsks
  /\ sfAsks' = sfAsks + 1
  /\ sfEntries' = {e \in sfEntries : e.d # d \/ Live(e, sfNow)}
  /\ IF LiveEntries(d) # {}
     THEN /\ \E e \in LiveEntries(d) :
               sfCallers' = [sfCallers EXCEPT
                               ![c] = [st |-> "done", d |-> d, via |-> "hit", got |-> e.rec]]
          /\ UNCHANGED <<sfFlights, sfDown>>
     ELSE IF InFlight(d, sfFlights)
     THEN /\ sfCallers' = [sfCallers EXCEPT
                             ![c] = [st |-> "wait", d |-> d, via |-> "flight", got |-> ZeroDNS]]
          /\ UNCHANGED <<sfFlights, sfDown>>
     ELSE /\ sfCallers' = [sfCallers EXCEPT
                             ![c] = [st |-> "lead", d |-> d, via |-> "next", got |-> ZeroDNS]]
          /\ sfFlights' = sfFlights \cup {d}
          /\ sfDown' = [sfDown EXCEPT ![d] = @ + 1]
  /\ UNCHANGED <<chainVars, parseVars, sfNow>>

\* The downstream call of caller c returns rec: a storable record replaces the
\* entry of its domain with expiresAt = now + TTL, the flight ends, and the
\* caller and every caller waiting on the flight return rec.
DownstreamReturn(c, rec) ==
  /\ sfCallers[c].st = "lead"
  /\ LET d == sfCallers[c].d
     IN  /\ rec \in DownReplies(d)
         /\ sfEntries' = IF Storable(rec)
                         THEN {e \in sfEntries : e.d # d}
                                \cup {[d |-> d, rec |-> rec, expiresAt |-> sfNow + TTL]}
                         ELSE sfEntries
         /\ sfFlights' = sfFlights \ {d}
         /\ sfCallers' = [k \in 1..NCallers |->
                            IF k = c \/ (sfCallers[k].st = "wait" /\ sfCallers[k].d = d)
                            THEN [sfCallers[k] EXCEPT !.st = "done", !.got = rec]
                            ELSE sfCallers[k]]
  /\ UNCHANGED <<chainVars, parseVars, sfNow, sfDown, sfAsks>>

\* A caller that has its record is free to query again.
CallerDone(c) ==
  /\ sfCallers[c].st = "done"
  /\ sfCallers' = [sfCallers EXCEPT ![c] = IdleCaller]
  /\ UNCHANGED <<chainVars, parseVars, sfNow, sfEntries, sfFlights, sfDown, sfAsks>>

\* Time passes.
Tick ==
  /\ sfNow < MaxTime
  /\ sfNow' = sfNow + 1
  /\ UNCHANGED <<chainVars, parseVars, sfEntries, sfFlights, sfCallers, sfDown, sfAsks>>

InitCache == InitWith([Servers |-> <<>>, Mapping |-> <<>>])

NextCache ==
  \/ \E c \in 1..NCallers, d \in CacheDomains : CacheAsk(c, d)
  \/ \E c \in 1..NCallers, d \in CacheDomains : \E rec \in DownReplies(d) :
        DownstreamReturn(c, rec)
  \/ \E c \in 1..NCallers : CallerDone(c)
  \/ Tick

SpecCache == InitCache /\ [][NextCache]_vars

\* ApplyConfig alone, over BuildConfigs.
InitBuild == \E cfg \in BuildConfigs : InitWith(cfg)
NextBuild == ApplyConfigStep
SpecBuild == InitBuild /\ [][NextBuild]_vars

\* =============================================================== claims
\* The matching rule as the specification words it: a pattern that begins
\* with "*" matches the domains that end with the rest of it, any other
\* pattern matches the domain equal to it.
StatedMatch(P, d) ==
  IF Len(P) > 0 /\ P[1] = "*" THEN HasSuffix(d, Tail(P)) ELSE d = P

RaceCancelled == "context was canceled"

\* C1: a ResolveDomain call with at least one server that returns without an
\* error returns at the moment one attempt delivers its reply, and returns the
\* addresses and the server of exactly that attempt (one of the servers passed
\* in); no other attempt is ever received, whatever the others do meanwhile.
C1_FirstAttemptOnly ==
  /\ (rdState = "returned" /\ rdErr = NoErr) =>
       \E i \in DOMAIN attempts :
         /\ attempts[i].st = "done"
         /\ rdIps = attempts[i].ips
         /\ rdServer = rdServers[i]
         /\ \A j \in DOMAIN attempts : j # i => attempts[j].st # "done"
  /\ (\E i \in DOMAIN attempts : attempts[i].st = "done") =>
       (rdState = "returned" /\ rdErr = NoErr)

\* C1, its case: two servers, the winner returned, the slower attempt waiting
\* with different addresses.
C1_Witness ==
  /\ pc = "direct" /\ rdState = "returned" /\ rdErr = NoErr
  /\ Len(rdServers) = 2 /\ rdIps # <<>>
  /\ \E j \in DOMAIN attempts :
       attempts[j].st = "send" /\ attempts[j].ips # <<>> /\ attempts[j].ips # rdIps

\* C2: a ResolveDomain call with no servers does not wait: whenever it is in
\* its select it is able to return, the scope cancelled or not.
C2_ZeroServersFailFast ==
  (rdState = "select" /\ Len(rdServers) = 0) =>
     ENABLED (SelectDone \/ \E i \in 1..MaxServers : SelectRecv(i))

\* C3 as stated: once the scope was cancelled while no attempt had completed,
\* ResolveDomain returns RaceCancelled with nil addresses and the zero server.
C3_CancelledBeforeAnyReply ==
  (cancelledFirst /\ rdState = "returned") =>
     (rdErr = RaceCancelled /\ rdIps = <<>> /\ rdServer = ZeroServer)

\* C3 as amended: a select decided while the scope is cancelled and no attempt
\* is waiting to deliver returns RaceCancelled with nil addresses and the zero
\* server, and leaves every attempt in flight as it was.
C3_CancelledAtSelect ==
  [][(/\ rdState = "select" /\ rdState' = "returned"
      /\ ctxDone
      /\ \A i \in DOMAIN attempts : attempts[i].st # "send")
     => (/\ rdErr' = RaceCancelled /\ rdIps' = <<>> /\ rdServer' = ZeroServer
         /\ attempts' = attempts)]_vars

\* C3, its case: RaceCancelled returned while an attempt is still in its exchange.
C3_Witness ==
  /\ pc = "direct" /\ rdState = "returned" /\ rdErr = RaceCancelled
  /\ cancelledFirst
  /\ \E i \in DOMAIN attempts : attempts[i].st = "exchange"

\* C4: an attempt whose exchange fails does not crash the process.
C4_FailedExchangeCompletes == panicked # "nil pointer dereference"

\* A query has been put to a chain that ApplyConfig built.
Querying == applied /\ buildErr = NoErr /\ nQueries > 0

Rules == config.Mapping

\* The configured rules whose pattern matches the queried domain, and the
\* first of them in configuration order.
Matching == {k \in 1..Len(Rules) : StatedMatch(Rules[k].Domain, domain)}
FirstMatching == CHOOSE k \in Matching : \A j \in Matching : k <= j

\* C5: when some configured rule matches the queried domain, the handlers
\* invoked for the query are the rules in configuration order up to the first
\* matching one and nothing after it, and the record returned carries that
\* rule's pattern.
C5_FirstConfiguredRuleWins ==
  (Querying /\ Matching # {}) =>
     /\ Len(invoked) <= FirstMatching
     /\ \A n \in 1..Len(invoked) : invoked[n] = n
     /\ pc = "done" => (pos = FirstMatching /\ reply.Typ = TypStatic
                        /\ reply.MappingDomain = Rules[FirstMatching].Domain)

\* C5, its case: two rules with different patterns both match, the first answered.
C5_Witness ==
  /\ Querying /\ pc = "done" /\ Len(Rules) = 2
  /\ Matching = {1, 2} /\ Rules[1].Domain # Rules[2].Domain
  /\ reply.MappingDomain = Rules[1].Domain

\* C6: a query that matched a server-backed mapping rule is answered by that
\* rule whatever its race does: the rule stays the last handler invoked, the
\* process keeps running while it races, and the record returned is static,
\* with no addresses when the race failed.
C6_MatchIsFinal ==
  (/\ Querying /\ pc \in {"race", "done"}
   /\ pos \in DOMAIN handle /\ handle[pos].kind = "mappingServer") =>
     /\ Running
     /\ invoked[Len(invoked)] = pos
     /\ pc = "done" => (reply.Typ = TypStatic /\ (rdErr # NoErr => reply.IP = <<>>))

\* C7: when the first matching rule configures only IP addresses, no race is
\* started for the query, and the record returned is static and carries the
\* configured addresses in order, the first of them selected.
C7_StaticIPRule ==
  (/\ Querying /\ Matching # {}
   /\ Rules[FirstMatching].Server = <<>> /\ Rules[FirstMatching].IP # <<>>) =>
     /\ rdState = "none"
     /\ pc = "done" => /\ reply.Typ = TypStatic
                       /\ reply.IP = ParseIPs(Rules[FirstMatching].IP).netIP
                       /\ reply.CurrentIP = reply.IP[1]

\* C8: when the first matching rule configures servers, the only race of the
\* query is over that rule's servers, and the record returned is static and
\* carries the rule's pattern and those servers as candidates, the winner one
\* of them.
C8_ServerRule ==
  (Querying /\ Matching # {} /\ Rules[FirstMatching].Server # <<>>) =>
     LET cand == ParseServers(Rules[FirstMatching].Server).addrs
     IN  /\ rdState # "none" => rdServers = cand
         /\ pc = "done" =>
              /\ reply.Typ = TypStatic
              /\ reply.MappingDomain = Rules[FirstMatching].Domain
              /\ reply.Server = cand
              /\ rdErr = NoErr => \E i \in DOMAIN cand : reply.CurrentServer = cand[i]

\* The closure of rule k has run on the current query.
RuleRan(k) ==
  /\ \E n \in DOMAIN invoked : invoked[n] = k
  /\ ~(pos = k /\ pc = "handle" /\ Running)

\* C9: a rule that has run on a query answered it itself exactly when its
\* pattern matches the domain as stated, and passed it on exactly when not.
C9_MatchIff ==
  (Querying /\ Len(Rules) = 1 /\ RuleRan(1)) =>
     /\ (pos = 1 /\ pc \in {"race", "done"}) <=> StatedMatch(Rules[1].Domain, domain)
     /\ (pos = 2) <=> ~StatedMatch(Rules[1].Domain, domain)

\* C10: a rule whose pattern does not match the queried domain, once it has
\* run, has invoked the next handler exactly once, has started no race, and
\* has left the domain and the scope as they were.
C10_NoMatchDelegates ==
  \A k \in 1..Len(Rules) :
    (Querying /\ RuleRan(k) /\ ~StatedMatch(Rules[k].Domain, domain)) =>
       /\ pos > k
       /\ Cardinality({n \in DOMAIN invoked : invoked[n] = k + 1}) = 1
       /\ pos = k + 1 /\ pc = "handle" => (rdState = "none" /\ reply = ZeroDNS)

\* The handlers of the chain invoked for the current query that are of kind k.
InvokedOf(k) == {n \in DOMAIN invoked : handle[invoked[n]].kind = k}

\* The general resolver has taken up the result of its race.
GeneralResumed ==
  /\ Querying /\ InvokedOf("general") # {}
  /\ rdState = "returned" /\ pc # "race"

\* C11: once the general resolver has taken up a race that returned an error,
\* the fallback has been invoked exactly once, and the record the query
\* returns is the resolver's own (dynamic, the queried domain, no addresses,
\* no selected address) whatever the fallback returned; after a race that
\* returned no error the fallback is not invoked.
C11_FallbackDiscarded ==
  GeneralResumed =>
     IF rdErr # NoErr
     THEN /\ Cardinality(InvokedOf("fallback")) = 1
          /\ pc = "done" =>
               reply = DNS(TypDynamic, <<>>, domain, <<>>, <<>>, ZeroServer, Nil, "")
     ELSE InvokedOf("fallback") = {}

\* C11, its case: the fallback returned a record with an address, and the
\* query returned the general resolver's empty record.
C11_Witness ==
  /\ GeneralResumed /\ pc = "done" /\ rdErr # NoErr
  /\ fbReply.Typ = TypSystem /\ fbReply.IP # <<>>
  /\ reply.Typ = TypDynamic /\ reply.IP = <<>>

\* An element of the list fails to parse as a server address.
BadServerIn(servers) ==
  \E i \in DOMAIN servers : ParseDnsServer(servers[i]).err # NoErr

\* An element of the list is not an IP literal.
BadIPIn(ips) == \E i \in DOMAIN ips : ParseIP(ips[i]) = Nil

\* A server address or an IP literal somewhere in the configuration fails to parse.
ParseFailure ==
  \/ BadServerIn(config.Servers)
  \/ \E k \in DOMAIN Rules : BadServerIn(Rules[k].Server) \/ BadIPIn(Rules[k].IP)

\* Every handler of the chain can be called.
Callable == handle # NilChain /\ \A i \in DOMAIN handle : handle[i].kind # "nil"

\* C12: once ApplyConfig has returned, a parse failure anywhere in the
\* configuration means an error and no handler, and a nil error means a
\* chain every handler of which can be called.
C12_ParseFailureAborts ==
  applied =>
     /\ ParseFailure => buildErr # NoErr /\ handle = NilChain
     /\ buildErr = NoErr => Callable

\* A rule with neither servers nor IP addresses.
EmptyRule(v) == Len(v.Server) = 0 /\ Len(v.IP) = 0

\* A rule with at least one of the two lists, every value of which is well formed.
WellFormedRule(v) == ~EmptyRule(v) /\ ~BadServerIn(v.Server) /\ ~BadIPIn(v.IP)

\* C16: once ApplyConfig has returned (GeoIP having initialised), a rule with
\* neither servers nor IP addresses means an error and no chain, and rules
\* that all supply at least one of the two with well-formed values are accepted.
C16_EmptyRuleRejected ==
  applied /\ buildErr # "geoip" =>
     /\ (\E k \in DOMAIN Rules : EmptyRule(Rules[k]))
           => buildErr # NoErr /\ handle = NilChain
     /\ (\A k \in DOMAIN Rules : WellFormedRule(Rules[k])) => buildErr = NoErr

\* The record is one a mapping rule or the general resolver built.
FromStage(d) == d.Typ \in {TypStatic, TypDynamic}

\* C14: in every record a query returns that a mapping rule or the general
\* resolver built, the selected address is one of the addresses when there
\* are addresses, and is absent when there are none.
C14_SelectedAmongAddresses ==
  Querying /\ pc = "done" /\ FromStage(reply) =>
     IF Len(reply.IP) > 0
     THEN \E i \in DOMAIN reply.IP : reply.CurrentIP = reply.IP[i]
     ELSE reply.CurrentIP = Nil

\* A query that no mapping rule matched and the cache did not answer has
\* gone through the general resolver and has returned.
GeneralAnswered == Querying /\ pc = "done" /\ InvokedOf("general") # {}

\* C15 as stated: whenever such a query ends without addresses (the race
\* was cancelled, or was won by an answer without addresses), the fallback
\* has been invoked for it.
C15_FallbackWheneverNoAddresses ==
  GeneralAnswered /\ Len(reply.IP) = 0 => InvokedOf("fallback") # {}

\* C15, amended: the fallback has been invoked for such a query exactly
\* when the race returned the cancellation error; a race won by an attempt,
\* also one without addresses, leaves the fallback uninvoked.
C15_FallbackOnRaceError ==
  GeneralAnswered => (InvokedOf("fallback") # {} <=> rdErr = RaceCancelled)

\* C15, its case: the race was won by an answer without addresses and the
\* query returned without the fallback.
C15_Witness ==
  /\ GeneralAnswered /\ rdErr = NoErr /\ Len(reply.IP) = 0
  /\ InvokedOf("fallback") = {}

\* Caller c has just put a query for domain d to the cache layer.
Asked(c, d) == sfCallers[c].st = "idle" /\ sfCallers'[c].st # "idle" /\ sfCallers'[c].d = d

\* An entry for d that has not reached its expiresAt is stored.
Unexpired(d) == \E e \in sfEntries : e.d = d /\ sfNow < e.expiresAt

\* The callers in the downstream call for d.
Leaders(d) == {c \in 1..NCallers : sfCallers[c].st = "lead" /\ sfCallers[c].d = d}

\* C13: in every step of the cache layer, (1) the downstream handler is
\* invoked for a domain only while no unexpired entry is stored for it and
\* no call for it is in flight, and a query made in that situation does
\* invoke it, once; (2) a call that returns hands its one record to the
\* caller that made it and to every caller waiting for that domain, and to
\* no caller of another domain; (3) a caller waits only while a call for
\* its own domain is in flight.
C13_SingleFlight ==
  [][\A d \in CacheDomains :
        /\ sfDown'[d] # sfDown[d] =>
              /\ sfDown'[d] = sfDown[d] + 1
              /\ ~Unexpired(d) /\ Leaders(d) = {}
        /\ \A c \in 1..NCallers :
              /\ Asked(c, d) /\ ~Unexpired(d) /\ Leaders(d) = {}
                    => sfDown'[d] = sfDown[d] + 1 /\ sfCallers'[c].st = "lead"
              /\ Asked(c, d) /\ Unexpired(d)
                    => sfCallers'[c].st = "done" /\ sfCallers'[c].got.Domain = d
              /\ sfCallers'[c].st = "wait" /\ sfCallers'[c].d = d
                    => Cardinality({k \in 1..NCallers :
                                      sfCallers'[k].st = "lead" /\ sfCallers'[k].d = d}) = 1
              /\ sfCallers[c].st = "lead" /\ sfCallers[c].d = d /\ sfCallers'[c].st = "done"
                    => \A k \in 1..NCallers :
                          IF sfCallers[k].st \in {"lead", "wait"} /\ sfCallers[k].d = d
                          THEN sfCallers'[k].st = "done"
                               /\ sfCallers'[k].got = sfCallers'[c].got
                          ELSE sfCallers'[k] = sfCallers[k]
    ]_vars

\* C13, its case: a second downstream call for a domain was made after the
\* stored record expired, while a caller that waited on the first call holds
\* the record that call returned.
C13_Witness ==
  \E d \in CacheDomains :
     /\ sfDown[d] = 2 /\ sfNow > 0
     /\ \E c \in 1..NCallers :
          /\ sfCallers[c].st = "done" /\ sfCallers[c].d = d
          /\ sfCallers[c].via = "flight" /\ Storable(sfCallers[c].got)

\* A digit string read as a decimal number, from its last character.
RECURSIVE PortValue(_)
PortValue(p) ==
  IF p = <<>> THEN 0
  ELSE 10 * PortValue(SubSeq(p, 1, Len(p) - 1))
         + (CHOOSE n \in 0..9 : Digits[n + 1] = p[Len(p)])

\* The string is one ParseDnsServer must refuse.
Refused(v) ==
  \/ v.scheme # "" /\ v.scheme # "udp"
  \/ v.host \notin {"1.1.1.1", "2.2.2.2"}
  \/ v.port # <<>> /\ \E i \in DOMAIN v.port : v.port[i] \notin {Digits[n] : n \in 1..10}

\* C17: a ParseDnsServer call returns an error and no descriptor exactly for
\* a scheme other than udp, a host that is no IP literal or a port that is
\* no integer; otherwise it returns no error and the descriptor of protocol
\* udp, the host's IP and the given port, 53 when there is none.
C17_ParseContract ==
  parsed # NotParsed =>
     /\ (parsed.err # NoErr) <=> Refused(parseIn)
     /\ (parsed.err # NoErr) <=> (parsed.s = NilServer)
     /\ ~Refused(parseIn) =>
           parsed.s = [Network |-> "udp", IP |-> parseIn.host,
                       Port |-> IF parseIn.port = <<>> THEN 53
                                ELSE PortValue(parseIn.port)]

\* C17, its case: a string with the udp scheme and a port of two digits has
\* been parsed into a descriptor.
C17_Witness ==
  /\ parsed # NotParsed /\ parsed.err = NoErr
  /\ parseIn.scheme = "udp" /\ Len(parseIn.port) = 2 /\ parsed.s.Port = 53

\* C18: once ResolveDomain has returned, no attempt it started is left at
\* its send on c, where nothing will ever receive from it.
C18_NoAttemptBlockedAfterReturn ==
  rdState = "returned" => \A i \in DOMAIN attempts : attempts[i].st # "send"

\* C19: a query put to a chain that was built without error never ends in
\* an index-out-of-range fault of a mapping rule.
C19_BuiltRuleNeverFaults ==
  applied /\ buildErr = NoErr => panicked # "index out of range"

\* The closure whose record a finished query returned is a mapping rule's;
\* otherwise the record is the general resolver's, fresh or from the cache.
FromRule == handle[pos].kind \in {"mappingServer", "mappingStatic"}

\* C20: the record a query returns carries the queried domain, so IsNil is
\* false; its kind is static exactly when a mapping rule's closure built it,
\* which is exactly when it carries a matched pattern (that rule's), and
\* dynamic exactly when the general resolver built it; and it carries
\* candidate servers only when a server-backed rule built it.
C20_RecordMatchesStage ==
  Querying /\ pc = "done" =>
     /\ reply.Domain = domain /\ ~IsNil(reply)
     /\ (reply.Typ = TypStatic) <=> FromRule
     /\ (reply.Typ = TypStatic) <=> (Len(reply.MappingDomain) > 0)
     /\ (reply.Typ = TypDynamic) <=> ~FromRule
     /\ FromRule => reply.MappingDomain = handle[pos].mappingDomain
     /\ (Len(reply.Server) > 0) <=> (handle[pos].kind = "mappingServer")
     /\ handle[pos].kind = "mappingServer" => reply.Server = handle[pos].serverAddrs

\* C20, its case: a server-backed rule returned its record after a cancelled
\* race, with no addresses.
C20_Witness ==
  /\ Querying /\ pc = "done" /\ handle[pos].kind = "mappingServer"
  /\ rdErr = RaceCancelled /\ Len(reply.IP) = 0 /\ Len(reply.Server) > 0

====
